---- MODULE Spec2Model ----
(***************************************************************************)
(* Model of kokoro_tts_api.py: a Flask wrapper that validates a JSON       *)
(* request, runs the `kokoro` command-line tool as a subprocess writing to *)
(* a per-request temporary file, and returns the file (/synthesize) or its *)
(* bytes (/synthesize/stream).                                              *)
(*                                                                         *)
(* Python values are records [t, s, n]: t is the JSON type, s the string   *)
(* payload, n the number payload.  A `text` string is run-length encoded:  *)
(* a sequence of runs <<char, count>>, so that texts around the 10000      *)
(* character limit can be enumerated.  A `format` string is a sequence of  *)
(* characters.  A `voice` string is an atom (only membership is tested).   *)
(***************************************************************************)
EXTENDS Integers, Sequences, FiniteSets, TLC

\* ------------------------------------------------------------------ bounds
MaxRequests == 2
MaxRuns == 3

\* ----------------------------------------------------------- configuration
MAX_TEXT_LENGTH == 10000

ALLOWED_VOICES ==
    { "af_alloy", "af_aoede", "af_bella", "af_heart", "af_jessica", "af_kore",
      "af_nicole", "af_nova", "af_river", "af_sarah", "af_sky", "am_adam",
      "am_michael", "bf_alice", "bf_emma", "bf_isabella", "bf_lily",
      "bm_george", "bm_lewis", "jf_alpha", "jf_gongitsune", "jf_nezumi",
      "jf_tebukuro" }

TEMP_DIR == "output_temp"

\* --------------------------------------------------------- Python values
Absent == [t |-> "absent", s |-> <<>>, n |-> 0]
Null == [t |-> "null", s |-> <<>>, n |-> 0]
Str(s) == [t |-> "str", s |-> s, n |-> 0]
Num(n) == [t |-> "int", s |-> <<>>, n |-> n]

VAbsent == [t |-> "absent", s |-> "", n |-> 0]
VNull == [t |-> "null", s |-> "", n |-> 0]
VStr(s) == [t |-> "str", s |-> s, n |-> 0]

\* bool(v) of a JSON value
Truthy(v) ==
    CASE v.t = "str" -> v.s # <<>>
      [] v.t = "int" -> v.n # 0
      [] OTHER -> FALSE

\* dict.get(key, default): the stored value, also when it is null
DictGet(v, default) == IF v.t = "absent" THEN default ELSE v

IsSpace(c) == c \in {" ", "\t", "\n"}

RECURSIVE LStrip(_)
LStrip(s) ==
    IF s = <<>> THEN s
    ELSE IF IsSpace(s[1][1]) THEN LStrip(Tail(s)) ELSE s

RECURSIVE RStrip(_)
RStrip(s) ==
    IF s = <<>> THEN s
    ELSE IF IsSpace(s[Len(s)][1]) THEN RStrip(SubSeq(s, 1, Len(s) - 1)) ELSE s

\* str.strip() on a run-length encoded string
Strip(s) == RStrip(LStrip(s))

\* len() of a run-length encoded string
RECURSIVE PyLen(_)
PyLen(s) == IF s = <<>> THEN 0 ELSE s[1][2] + PyLen(Tail(s))

LowerChar(c) ==
    CASE c = "W" -> "w"
      [] c = "A" -> "a"
      [] c = "V" -> "v"
      [] c = "M" -> "m"
      [] c = "P" -> "p"
      [] OTHER -> c

\* str.lower() on a character sequence
Lower(s) == [i \in 1..Len(s) |-> LowerChar(s[i])]

WAV == <<"w", "a", "v">>

\* ------------------------------------------------------ request validator
DEFAULT_VOICE == "af_heart"

Raise(exc, msg) == [exc |-> exc, msg |-> msg, text |-> <<>>, voice |-> ""]
Return(text, voice) == [exc |-> "none", msg |-> "", text |-> text, voice |-> voice]

\* `if not data`: None and the empty dict are falsy
DataFalsy(d) ==
    \/ d.kind = "none"
    \/ d.kind = "dict" /\ d.text.t = "absent" /\ d.voice.t = "absent"
                       /\ d.format.t = "absent"

\* off-by-one limit
TextTooLong_offByOne(text) == PyLen(text) > MAX_TEXT_LENGTH + 1

TextTooLong(text) == PyLen(text) > MAX_TEXT_LENGTH

VoiceAllowed(v) == v.t = "str" /\ v.s \in ALLOWED_VOICES

\* `format_param.lower() != 'wav'`
FormatUnsupported(fp) == Lower(fp.s) # WAV

validate_request_data(d) ==
    IF DataFalsy(d) THEN Raise("BadRequest", "Request body is required")
    ELSE IF d.kind # "dict" THEN Raise("AttributeError", "get")
    ELSE LET t == DictGet(d.text, Str(<<>>))
             v == DictGet(d.voice, VStr(DEFAULT_VOICE))
             fp == DictGet(d.format, Null)
         IN IF t.t # "str" THEN Raise("AttributeError", "strip")
            ELSE IF Strip(t.s) = <<>>
              THEN Raise("BadRequest", "Text field is required and cannot be empty")
            ELSE IF TextTooLong(Strip(t.s))
              THEN Raise("BadRequest", "Text length exceeds maximum")
            ELSE IF ~VoiceAllowed(v)
              THEN Raise("BadRequest", "Invalid voice")
            ELSE IF Truthy(fp) /\ fp.t # "str"
              THEN Raise("AttributeError", "lower")
            ELSE IF Truthy(fp) /\ FormatUnsupported(fp)
              THEN Raise("BadRequest", "Only WAV format is supported")
            ELSE Return(Strip(t.s), v.s)

\* ------------------------------------------------------------- responses
NoResponse == [status |-> 0, error |-> "", message |-> "", body |-> 0]

JsonError(status, error, message) ==
    [status |-> status, error |-> error, message |-> message, body |-> 0]

\* 200 with the bytes of the artifact; body is the request whose subprocess
\* wrote the bytes
Audio(content) == [status |-> 200, error |-> "", message |-> "", body |-> content]

InvalidRequest(msg) == JsonError(400, "Invalid request", msg)
InternalServerError == JsonError(500, "Internal server error", "An unexpected error occurred")
SynthesisFailed == JsonError(500, "TTS synthesis failed", "Failed to generate audio file")
FileReadError == JsonError(500, "File read error", "Failed to read generated audio file")

\* ----------------------------------------------------------- artifacts
Requests == 1..MaxRequests
UUIDs == 1..MaxRequests

\* file name that ignores the generated identifier
OutputFilename_fixed(file_id) == <<"kokoro_tts_", 0, ".wav">>

OutputFilename(file_id) == <<"kokoro_tts_", file_id, ".wav">>
\* path that ignores the generated file name
OutputPath_shared(filename) == <<TEMP_DIR, <<"kokoro_tts_", 0, ".wav">> >>

OutputPath(filename) == <<TEMP_DIR, filename>>

Paths == { OutputPath(OutputFilename(u)) : u \in UUIDs }
NoPath == <<>>

\* ------------------------------------------------------- request bodies
Chars == {" ", "a"}
RunLens == {1, MAX_TEXT_LENGTH}
Runs == Chars \X RunLens

\* run-length encoded strings of at most n runs
TextStrings(n) == UNION { [1..k -> Runs] : k \in 0..n }

TextValues == {Absent, Null, Num(5)} \cup { Str(s) : s \in TextStrings(MaxRuns) }

VoiceValues == {VAbsent, VNull, VStr("af_heart"), VStr("bm_lewis"), VStr("xx_invalid")}

FormatValues ==
    { Absent, Null, Num(0), Num(5), Str(<<>>), Str(WAV),
      Str(<<"W", "A", "V">>), Str(<<"m", "p", "3">>) }

Dict(t, v, f) == [kind |-> "dict", text |-> t, voice |-> v, format |-> f]

\* get_json() results: None, a JSON value that is not an object, an object
NoBody == [kind |-> "none", text |-> Absent, voice |-> VAbsent, format |-> Absent]
ListBody == [kind |-> "other", text |-> Absent, voice |-> VAbsent, format |-> Absent]

Bodies ==
    {NoBody, ListBody}
      \cup { Dict(t, v, f) : t \in TextValues, v \in VoiceValues, f \in FormatValues }

\* the bodies used when several requests run concurrently
Hello == << <<"a", 1>> >>
ConcurrentBodies ==
    { Dict(Str(Hello), VAbsent, Absent),
      Dict(Str(<< <<" ", 1>>, <<"a", 1>> >>), VStr("bm_lewis"), Str(WAV)),
      Dict(Str(<<>>), VAbsent, Absent) }

Endpoints == {"/synthesize", "/synthesize/stream"}

\* ------------------------------------------------------------------ state
VARIABLES
    CLEANUP_FILES,  \* Config.CLEANUP_FILES
    pc,             \* per request: position of its handler
    endpoint,       \* per request: the route
    data,           \* per request: request.get_json()
    text,           \* per request: validated text
    voice,          \* per request: validated voice
    output_path,    \* per request: generated artifact path
    proc,           \* per request: what subprocess.run did
    response,       \* per request: the response returned to the client
    fault,          \* per request: the exception hit after synthesis
    fs,             \* temp directory: path -> request whose subprocess wrote it, 0 = no file
    uuids,          \* identifiers uuid4() has returned
    nrun,           \* per request: subprocess invocations
    npath,          \* per request: output paths generated
    nread,          \* per request: times the artifact was opened for sending/reading
    unlinked        \* per request: <<path, writer>> of files it deleted

vars == << CLEANUP_FILES, pc, endpoint, data, text, voice, output_path, proc,
           response, fault, fs, uuids, nrun, npath, nread, unlinked >>

NoProc == [raised |-> "none", returncode |-> -1, exists |-> FALSE]

Init ==
    /\ CLEANUP_FILES \in BOOLEAN
    /\ pc = [r \in Requests |-> "idle"]
    /\ endpoint = [r \in Requests |-> ""]
    /\ data = [r \in Requests |-> NoBody]
    /\ text = [r \in Requests |-> <<>>]
    /\ voice = [r \in Requests |-> ""]
    /\ output_path = [r \in Requests |-> NoPath]
    /\ proc = [r \in Requests |-> NoProc]
    /\ response = [r \in Requests |-> NoResponse]
    /\ fault = [r \in Requests |-> "none"]
    /\ fs = [p \in Paths |-> 0]
    /\ uuids = {}
    /\ nrun = [r \in Requests |-> 0]
    /\ npath = [r \in Requests |-> 0]
    /\ nread = [r \in Requests |-> 0]
    /\ unlinked = [r \in Requests |-> {}]

\* uuid.uuid4(): an identifier that no earlier call returned
uuid4 == UUIDs \ uuids

\* ---------------------------------------------------------------- actions
\* Handler entry of either endpoint: get_json, validate, generate the path.
\* The request body is drawn from the set bodies.
Request(r, bodies) ==
    /\ pc[r] = "idle"
    /\ \E ep \in Endpoints, d \in bodies :
         /\ endpoint' = [endpoint EXCEPT ![r] = ep]
         /\ data' = [data EXCEPT ![r] = d]
         /\ LET v == validate_request_data(d) IN
            IF v.exc = "none"
            THEN \E u \in uuid4 :
                   /\ uuids' = uuids \cup {u}
                   /\ output_path' = [output_path EXCEPT ![r] = OutputPath(OutputFilename(u))]
                   /\ npath' = [npath EXCEPT ![r] = @ + 1]
                   /\ text' = [text EXCEPT ![r] = v.text]
                   /\ voice' = [voice EXCEPT ![r] = v.voice]
                   /\ pc' = [pc EXCEPT ![r] = "validated"]
                   /\ UNCHANGED response
            ELSE /\ response' = [response EXCEPT ![r] =
                                   IF v.exc = "BadRequest" THEN InvalidRequest(v.msg)
                                   ELSE InternalServerError]
                 /\ pc' = [pc EXCEPT ![r] = "done"]
                 /\ UNCHANGED << uuids, output_path, npath, text, voice >>
    /\ UNCHANGED << CLEANUP_FILES, proc, fault, fs, nrun, nread, unlinked >>

\* what subprocess.run can do: return an exit status, time out, fail to start
ProcResults ==
    { [raised |-> "none", returncode |-> 0],
      [raised |-> "none", returncode |-> 1],
      [raised |-> "TimeoutExpired", returncode |-> -1],
      [raised |-> "OSError", returncode |-> -1] }

\* success decided by the exit status alone
KokoroSuccess_exitOnly(returncode, exists) == returncode = 0

\* lines 121-129: zero exit status and the output file exists
KokoroSuccess(returncode, exists) == returncode = 0 /\ exists

\* run_kokoro_command and the handler's `if not success` branch.  The tool
\* may or may not have written the output file, whatever its result, unless
\* it never started.
run_kokoro_command(r) ==
    /\ pc[r] = "validated"
    /\ \E res \in ProcResults, wrote \in BOOLEAN :
         /\ res.raised = "OSError" => ~wrote
         /\ fs' = IF wrote THEN [fs EXCEPT ![output_path[r]] = r] ELSE fs
         /\ LET exists == fs'[output_path[r]] # 0
                success == res.raised = "none" /\ KokoroSuccess(res.returncode, exists)
            IN /\ proc' = [proc EXCEPT ![r] =
                             [raised |-> res.raised, returncode |-> res.returncode,
                              exists |-> exists]]
               /\ IF success
                  THEN /\ pc' = [pc EXCEPT ![r] = "synthesized"]
                       /\ UNCHANGED response
                  ELSE /\ pc' = [pc EXCEPT ![r] = "done"]
                       /\ response' = [response EXCEPT ![r] = SynthesisFailed]
    /\ nrun' = [nrun EXCEPT ![r] = @ + 1]
    /\ UNCHANGED << CLEANUP_FILES, endpoint, data, text, voice, output_path,
                    fault, uuids, npath, nread, unlinked >>

\* /synthesize, lines 200-208: send_file opens the artifact and the 200
\* response starts; a failure to open it is caught at the endpoint boundary.
send_file(r) ==
    /\ pc[r] = "synthesized"
    /\ endpoint[r] = "/synthesize"
    /\ \E openOk \in BOOLEAN :
         IF fs[output_path[r]] # 0 /\ openOk
         THEN /\ response' = [response EXCEPT ![r] = Audio(fs[output_path[r]])]
              /\ nread' = [nread EXCEPT ![r] = @ + 1]
              /\ pc' = [pc EXCEPT ![r] = "sending"]
              /\ UNCHANGED fault
         ELSE /\ response' = [response EXCEPT ![r] = InternalServerError]
              /\ fault' = [fault EXCEPT ![r] = "open"]
              /\ pc' = [pc EXCEPT ![r] = "done"]
              /\ UNCHANGED nread
    /\ UNCHANGED << CLEANUP_FILES, endpoint, data, text, voice, output_path,
                    proc, fs, uuids, nrun, npath, unlinked >>

\* `def remove_file(response)`: one required positional parameter
remove_file_params == 1

\* Response.close() runs each function registered with call_on_close as
\* func(), with no argument
on_close_args == 0

\* a Python call raises TypeError when a required positional is not supplied
CallRaisesTypeError(params, args) == params # args

\* body of remove_file: what is left of the file, and the fault logged
remove_file(cleanup, exists, unlinkOk) ==
    IF ~cleanup THEN [deleted |-> FALSE, fault |-> "none"]
    ELSE IF exists /\ unlinkOk THEN [deleted |-> TRUE, fault |-> "none"]
    ELSE [deleted |-> FALSE, fault |-> "unlink"]

\* /synthesize: the response is closed (transfer finished or the client
\* went away) and the functions registered with call_on_close run.
response_close(r) ==
    /\ pc[r] = "sending"
    /\ \E unlinkOk \in BOOLEAN :
         LET p == output_path[r]
             res == IF CallRaisesTypeError(remove_file_params, on_close_args)
                    THEN [deleted |-> FALSE, fault |-> "TypeError"]
                    ELSE remove_file(CLEANUP_FILES, fs[p] # 0, unlinkOk)
         IN /\ fs' = IF res.deleted THEN [fs EXCEPT ![p] = 0] ELSE fs
            /\ unlinked' = IF res.deleted
                           THEN [unlinked EXCEPT ![r] = @ \cup {<<p, fs[p]>>}]
                           ELSE unlinked
            /\ fault' = [fault EXCEPT ![r] = res.fault]
    /\ pc' = [pc EXCEPT ![r] = "done"]
    /\ UNCHANGED << CLEANUP_FILES, endpoint, data, text, voice, output_path,
                    proc, response, uuids, nrun, npath, nread >>

\* /synthesize/stream, lines 243-261: open and read, unlink when cleanup is
\* enabled, return the bytes; any exception in the block is a read error.
\* the stream handler forgets to unlink
StreamOutcome_noUnlink(cleanup, exists, readOk, unlinkOk) ==
    IF ~(exists /\ readOk) THEN [read |-> FALSE, deleted |-> FALSE, fault |-> "read"]
    ELSE [read |-> TRUE, deleted |-> FALSE, fault |-> "none"]

StreamOutcome(cleanup, exists, readOk, unlinkOk) ==
    IF ~(exists /\ readOk) THEN [read |-> FALSE, deleted |-> FALSE, fault |-> "read"]
    ELSE IF ~cleanup THEN [read |-> TRUE, deleted |-> FALSE, fault |-> "none"]
    ELSE IF unlinkOk THEN [read |-> TRUE, deleted |-> TRUE, fault |-> "none"]
    ELSE [read |-> TRUE, deleted |-> FALSE, fault |-> "unlink"]

synthesize_stream(r) ==
    /\ pc[r] = "synthesized"
    /\ endpoint[r] = "/synthesize/stream"
    /\ \E readOk \in BOOLEAN, unlinkOk \in BOOLEAN :
         LET p == output_path[r]
             res == StreamOutcome(CLEANUP_FILES, fs[p] # 0, readOk, unlinkOk)
         IN /\ nread' = [nread EXCEPT ![r] = IF res.read THEN @ + 1 ELSE @]
            /\ fs' = IF res.deleted THEN [fs EXCEPT ![p] = 0] ELSE fs
            /\ unlinked' = IF res.deleted
                           THEN [unlinked EXCEPT ![r] = @ \cup {<<p, fs[p]>>}]
                           ELSE unlinked
            /\ fault' = [fault EXCEPT ![r] = res.fault]
            /\ response' = [response EXCEPT ![r] =
                              IF res.fault = "none" THEN Audio(fs[p])
                              ELSE FileReadError]
    /\ pc' = [pc EXCEPT ![r] = "done"]
    /\ UNCHANGED << CLEANUP_FILES, endpoint, data, text, voice, output_path,
                    proc, uuids, nrun, npath >>

\* ---------------------------------------------------------- specifications
\* threaded server: requests are handled concurrently
Next ==
    \E r \in Requests :
        \/ Request(r, ConcurrentBodies)
        \/ run_kokoro_command(r)
        \/ send_file(r)
        \/ response_close(r)
        \/ synthesize_stream(r)

Spec == Init /\ [][Next]_vars

\* one request, every request body
NextOne ==
    \/ Request(1, Bodies)
    \/ run_kokoro_command(1)
    \/ send_file(1)
    \/ response_close(1)
    \/ synthesize_stream(1)

SpecOne == Init /\ [][NextOne]_vars

TypeOK ==
    /\ pc \in [Requests -> {"idle", "validated", "synthesized", "sending", "done"}]
    /\ fs \in [Paths -> {0} \cup Requests]
    /\ uuids \subseteq UUIDs

\* ------------------------------------------------------------ properties
Handled(r) == pc[r] # "idle"
Valid(r) == Handled(r) /\ validate_request_data(data[r]).exc = "none"
SynthesisOK(r) ==
    proc[r].raised = "none" /\ proc[r].returncode = 0 /\ proc[r].exists

\* `text` is absent, null, or a string that is empty once trimmed
TextMissingOrEmpty(d) ==
    \/ d.kind = "none"
    \/ d.kind = "dict" /\ d.text.t \in {"absent", "null"}
    \/ d.kind = "dict" /\ d.text.t = "str" /\ Strip(d.text.s) = <<>>

\* C1: a request whose text is missing or empty gets 400 'Invalid request',
\* no subprocess runs for it and no output path is generated for it.
C1_EmptyTextRejected ==
    \A r \in Requests :
        Handled(r) /\ TextMissingOrEmpty(data[r])
            => /\ response[r].status = 400
               /\ response[r].error = "Invalid request"
               /\ nrun[r] = 0
               /\ npath[r] = 0

\* C2: a request that passes validation generates exactly one output path,
\* its subprocess is invoked at most once and exactly once by the time the
\* request is past the invoker, whatever the subprocess did, and its path
\* is the path of no other request.
C2_OneInvocationFreshPath ==
    \A r \in Requests :
        Valid(r)
            => /\ npath[r] = 1
               /\ nrun[r] <= 1
               /\ pc[r] # "validated" => nrun[r] = 1
               /\ \A q \in Requests \ {r} : output_path[q] # output_path[r]

C2_Witness ==
    \E r, q \in Requests :
        /\ r # q
        /\ Valid(r) /\ Valid(q)
        /\ pc[r] = "done" /\ pc[q] = "done"
        /\ proc[r].returncode = 1 /\ nrun[r] = 1
        /\ proc[q].raised = "TimeoutExpired" /\ nrun[q] = 1

\* C3: a 200 is returned only after an exit status 0 with the output file
\* present; after any other subprocess result the response is the generic
\* 500 'TTS synthesis failed' and the artifact is never read or sent.
C3_SuccessNeedsExitAndFile ==
    \A r \in Requests :
        /\ response[r].status = 200 => SynthesisOK(r)
        /\ nrun[r] = 1 /\ ~SynthesisOK(r)
              => /\ pc[r] = "done"
                 /\ response[r] = SynthesisFailed
                 /\ nread[r] = 0

C3_Witness ==
    \E r \in Requests :
        /\ proc[r].raised = "none" /\ proc[r].returncode = 0 /\ ~proc[r].exists
        /\ response[r] = SynthesisFailed

\* C4: with cleanup enabled, once a successful /synthesize response has
\* been closed its temporary file no longer exists, and the file is still
\* there while the response is open.
C4_FileGoneAfterClose ==
    \A r \in Requests :
        /\ CLEANUP_FILES /\ endpoint[r] = "/synthesize" /\ response[r].status = 200
              /\ pc[r] = "done"
              => fs[output_path[r]] = 0
        /\ pc[r] = "sending" => fs[output_path[r]] # 0

\* C5: when the artifact was read or sent and deleting it then failed, the
\* caller still gets the 200 audio response, on both endpoints.
C5_CleanupFailureKeeps200 ==
    \A r \in Requests :
        pc[r] = "done" /\ nread[r] = 1 /\ fault[r] \in {"unlink", "TypeError"}
            => response[r].status = 200

\* C6: with cleanup enabled, a resolved request leaves no file written for
\* it in the temp directory, and no artifact is read or sent twice.
C6_NoFileLeftBehind ==
    \A r \in Requests :
        /\ nread[r] <= 1
        /\ CLEANUP_FILES /\ pc[r] = "done" => \A p \in Paths : fs[p] # r

\* a format value was supplied and is not 'wav' in any letter case
FormatSuppliedNotWav(d) ==
    /\ d.kind = "dict"
    /\ d.format.t \in {"str", "int"}
    /\ ~(d.format.t = "str" /\ Lower(d.format.s) = WAV)

\* C7: a request whose format is supplied and is not 'wav' (any case) gets
\* 400 and no subprocess runs for it (stated on requests whose text is a
\* string or absent, so that only the format decides).
C7_BadFormatRejected ==
    \A r \in Requests :
        Handled(r) /\ FormatSuppliedNotWav(data[r]) /\ data[r].text.t \in {"absent", "str"}
            => response[r].status = 400 /\ nrun[r] = 0

\* C8 as stated: a request whose text as supplied is longer than the
\* maximum gets 400 and no subprocess runs for it.
C8_RawLengthRejected ==
    \A r \in Requests :
        /\ Handled(r) /\ data[r].kind = "dict" /\ data[r].text.t = "str"
        /\ PyLen(data[r].text.s) > MAX_TEXT_LENGTH
        => response[r].status = 400 /\ nrun[r] = 0

\* C8 amended: a request whose text is, after trimming surrounding
\* whitespace, longer than the maximum gets 400 'Invalid request' and no
\* subprocess runs for it.
C8_TrimmedLengthRejected ==
    \A r \in Requests :
        /\ Handled(r) /\ data[r].kind = "dict" /\ data[r].text.t = "str"
        /\ PyLen(Strip(data[r].text.s)) > MAX_TEXT_LENGTH
        => /\ response[r].status = 400
           /\ response[r].error = "Invalid request"
           /\ nrun[r] = 0
           /\ pc[r] = "done"

C8_Witness ==
    \E r \in Requests :
        /\ data[r].kind = "dict" /\ data[r].text.t = "str"
        /\ PyLen(Strip(data[r].text.s)) = MAX_TEXT_LENGTH + 1
        /\ PyLen(data[r].text.s) > MAX_TEXT_LENGTH + 1
        /\ response[r].status = 400

\* C9: on /synthesize/stream a 200 means the artifact was read once and,
\* with cleanup enabled, has been deleted by this request, so the file does
\* not exist when the 200 is emitted; a failed read gives the 500 'File
\* read error', which is not the 500 of a synthesis failure.
C9_StreamDeletesBeforeResponding ==
    \A r \in Requests :
        endpoint[r] = "/synthesize/stream"
            => /\ response[r].status = 200
                    => /\ nread[r] = 1
                       /\ CLEANUP_FILES
                            => /\ fs[output_path[r]] = 0
                               /\ <<output_path[r], r>> \in unlinked[r]
               /\ fault[r] = "read"
                    => /\ response[r] = FileReadError
                       /\ response[r] # SynthesisFailed
               /\ pc[r] = "done" /\ SynthesisOK(r) /\ response[r].status # 200
                    => response[r] = FileReadError

C9_Witness ==
    \E r, q \in Requests :
        /\ endpoint[r] = "/synthesize/stream" /\ endpoint[q] = "/synthesize/stream"
        /\ CLEANUP_FILES
        /\ response[r].status = 200 /\ fs[output_path[r]] = 0
        /\ fault[q] = "read" /\ response[q] = FileReadError

\* C10: under any interleaving no two requests have the same artifact
\* path, a 200 carries the bytes written by the request's own subprocess,
\* and a request deletes only its own path holding its own file.
C10_NoCrossRequestInterference ==
    \A r \in Requests :
        /\ \A q \in Requests \ {r} :
              output_path[r] # NoPath => output_path[q] # output_path[r]
        /\ response[r].status = 200 => response[r].body = r
        /\ \A d \in unlinked[r] : d = <<output_path[r], r>>
        /\ \A p \in Paths : fs[p] # 0 => output_path[fs[p]] = p

C10_Witness ==
    \E r, q \in Requests :
        /\ r # q
        /\ pc[r] = "done" /\ unlinked[r] # {}
        /\ pc[q] = "sending" /\ fs[output_path[q]] = q
        /\ response[q].body = q

====
